---- MODULE Spec2Model ----
(***************************************************************************)
(* Model of the expresso scaffold generator (a Yeoman generator).          *)
(*                                                                         *)
(* One run of the generator is modelled: the run loop calls the public     *)
(* methods in queue order (initializing, prompting, validate, writing,     *)
(* end); fs.mkdir completes on a later turn of the event loop and then     *)
(* runs the callback given to it by writing().                             *)
(*                                                                         *)
(* A name is a sequence of one-character strings, so that the case         *)
(* conversions work on characters as the JavaScript does; a schematic, a   *)
(* path and a message are strings.  this.env.error(e) throws e.            *)
(***************************************************************************)
EXTENDS Integers, Sequences, FiniteSets, TLC

(***************************************************************************)
(* Bounds of the model.                                                    *)
(***************************************************************************)
MaxLen == 2

Alphabet == {"a", "B", "1", "_", "-", " "}

(***************************************************************************)
(* Characters.                                                             *)
(***************************************************************************)
UpperLetters ==
  << "A", "B", "C", "D", "E", "F", "G", "H", "I", "J", "K", "L", "M",
     "N", "O", "P", "Q", "R", "S", "T", "U", "V", "W", "X", "Y", "Z" >>

LowerLetters ==
  << "a", "b", "c", "d", "e", "f", "g", "h", "i", "j", "k", "l", "m",
     "n", "o", "p", "q", "r", "s", "t", "u", "v", "w", "x", "y", "z" >>

\* [A-Z]
IsUpper(c) == \E i \in DOMAIN UpperLetters : UpperLetters[i] = c

\* [a-z]
IsLower(c) == \E i \in DOMAIN LowerLetters : LowerLetters[i] = c

\* [_\-\s]
IsSeparator(c) == c \in {"_", "-", " "}

\* String.prototype.toUpperCase on one character
charToUpperCase(c) ==
  IF IsLower(c)
    THEN UpperLetters[CHOOSE i \in DOMAIN LowerLetters : LowerLetters[i] = c]
    ELSE c

\* String.prototype.toLowerCase on one character
charToLowerCase(c) ==
  IF IsUpper(c)
    THEN LowerLetters[CHOOSE i \in DOMAIN UpperLetters : UpperLetters[i] = c]
    ELSE c

\* str.toLowerCase()
toLowerCase(str) == [i \in 1..Len(str) |-> charToLowerCase(str[i])]

\* str.toUpperCase()
toUpperCase(str) == [i \in 1..Len(str) |-> charToUpperCase(str[i])]

\* str.charAt(0): the first character, or the empty string
charAt0(str) == IF str = <<>> THEN <<>> ELSE <<str[1]>>

\* str.slice(1): all but the first character
slice1(str) == IF str = <<>> THEN <<>> ELSE Tail(str)

\* the characters of a name as one string (template-literal interpolation)
RECURSIVE Str(_)
Str(name) == IF name = <<>> THEN "" ELSE Head(name) \o Str(Tail(name))

(***************************************************************************)
(* _toPascalCase: str.split(/[_\-\s]+|(?=[A-Z])/).map(...).join('')        *)
(***************************************************************************)
\* the length of the run of separators of str that starts after position q
RECURSIVE SeparatorRun(_, _)
SeparatorRun(str, q) ==
  IF q < Len(str) /\ IsSeparator(str[q + 1])
    THEN 1 + SeparatorRun(str, q + 1)
    ELSE 0

\* the end index of the match of /[_\-\s]+|(?=[A-Z])/ at position q of str
\* (positions count from 0), or -1 when the pattern does not match there
SplitMatch(str, q) ==
  IF q >= Len(str) THEN -1
  ELSE IF IsSeparator(str[q + 1]) THEN q + SeparatorRun(str, q)
  ELSE IF IsUpper(str[q + 1]) THEN q
  ELSE -1

\* the loop of String.prototype.split: p is the start of the current piece,
\* q the position tried; a match that ends at p splits nothing
RECURSIVE SplitFrom(_, _, _, _)
SplitFrom(str, p, q, acc) ==
  IF q >= Len(str)
    THEN Append(acc, SubSeq(str, p + 1, Len(str)))
    ELSE LET e == SplitMatch(str, q)
         IN  IF e = -1 \/ e = p
               THEN SplitFrom(str, p, q + 1, acc)
               ELSE SplitFrom(str, e, e, Append(acc, SubSeq(str, p + 1, q)))

split(str) == SplitFrom(str, 0, 0, <<>>)

\* word => word.charAt(0).toUpperCase() + word.slice(1).toLowerCase()
capitalize(word) == toUpperCase(charAt0(word)) \o toLowerCase(slice1(word))

\* words.join('')
RECURSIVE join(_)
join(words) == IF words = <<>> THEN <<>> ELSE Head(words) \o join(Tail(words))

\* a swapped-case slip: the first character lowered, the rest raised
toPascalCaseSwapped(str) ==
  LET words == split(str)
  IN  join([i \in 1..Len(words) |->
              toLowerCase(charAt0(words[i])) \o toUpperCase(slice1(words[i]))])

toPascalCase(str) ==
  LET words == split(str)
  IN  join([i \in 1..Len(words) |-> capitalize(words[i])])

(***************************************************************************)
(* _toKebabCase: str.replace(/([a-z])([A-Z])/g, '$1-$2').toLowerCase()     *)
(***************************************************************************)
\* the global replace: a left-to-right scan, each match taking two characters
RECURSIVE replaceLowerUpper(_)
replaceLowerUpper(str) ==
  IF Len(str) < 2 THEN str
  ELSE IF IsLower(str[1]) /\ IsUpper(str[2])
    THEN <<str[1], "-", str[2]>> \o replaceLowerUpper(Tail(Tail(str)))
    ELSE <<str[1]>> \o replaceLowerUpper(Tail(str))

\* the slip of leaving out the final toLowerCase()
toKebabCaseNoLower(str) == replaceLowerUpper(str)

toKebabCase(str) == toLowerCase(replaceLowerUpper(str))

(***************************************************************************)
(* Values.                                                                 *)
(***************************************************************************)
\* JavaScript's undefined, where a string is expected and where a name is
undefined == "undefined"
undefinedName == <<"undefined">>

\* enum Pattern
LOWER_CASE == "lowercase"
KEBAB_CASE == "kebab-case"
PASCAL_CASE == "PascalCase"
CAMEL_CASE == "camelCase"
Pattern == {LOWER_CASE, KEBAB_CASE, PASCAL_CASE, CAMEL_CASE}

\* the choices of the list prompt
choices == <<"usecase", "controller", "dto", "service">>

\* the options of _schematicValidation
validOptions == <<"usecase", "controller", "dto", "service">>

\* the kinds the message of validate() lists
listedOptions == <<"usecase", "controller", "service">>

Range(s) == {s[i] : i \in DOMAIN s}

\* the messages of the two errors the generator raises itself
ConfigMissingMessage ==
  "The expressots.config.ts file is missing. Please create it in the root of your project."

RECURSIVE CommaList(_)
CommaList(s) ==
  IF s = <<>> THEN ""
  ELSE IF Len(s) = 1 THEN s[1]
  ELSE s[1] \o ", " \o CommaList(Tail(s))

UnsupportedMessage(schematic) ==
  "The schematic " \o schematic
    \o " is not supported. Please use one of the following: "
    \o CommaList(listedOptions)

(***************************************************************************)
(* Inputs of a run.                                                        *)
(***************************************************************************)
RECURSIVE SeqsUpTo(_)
SeqsUpTo(n) ==
  IF n = 0 THEN {<<>>}
  ELSE LET shorter == SeqsUpTo(n - 1)
       IN  shorter \cup {Append(s, c) : s \in shorter, c \in Alphabet}

OrderTotal == <<"O", "r", "d", "e", "r", "T", "o", "t", "a", "l">>

\* the names a caller may pass or type
Names == SeqsUpTo(MaxLen) \cup {OrderTotal}

\* the schematic argument: absent, empty, a kind, an alias or something else
SchematicArgs ==
  {undefined, "", "usecase", "controller", "dto", "service",
   "u", "c", "d", "s", "widget"}

\* the name argument: absent or a name (the empty one included)
NameArgs == {undefinedName} \cup Names

\* the artifact's config object: scaffoldPattern set to a pattern, or not set
ConfigObjects == [scaffoldPattern : Pattern \cup {undefined}]

VARIABLES
  configExists,    \* expressots.config.ts exists in the destination root
  configFile,      \* the config object the artifact exports
  options,         \* this.options: the arguments of the invocation
  answers,         \* this.answers
  expressoConfig,  \* this.expressoConfig
  pc,              \* the position of the run loop
  cb,              \* the mkdir callback: "none", "pending", "done", "failed"
  wSchematic,      \* writing(): the local schematic the callback closes over
  wName,           \* writing(): the local name the callback closes over
  dirs,            \* the directories created
  files,           \* the files rendered by copyTpl
  errors,          \* the errors raised, in order
  trace            \* the prompts, mkdir calls, renders and errors, in order

vars ==
  << configExists, configFile, options, answers, expressoConfig, pc, cb,
     wSchematic, wName, dirs, files, errors, trace >>

Event(ev, arg) == [ev |-> ev, arg |-> arg]

Init ==
  /\ configExists \in BOOLEAN
  /\ configFile \in ConfigObjects
  /\ (~configExists => configFile = [scaffoldPattern |-> undefined])
  /\ options \in [schematic : SchematicArgs, name : NameArgs]
  /\ answers = [schematic |-> undefined, name |-> undefinedName]
  /\ expressoConfig = [scaffoldPattern |-> undefined]
  /\ pc = "initializing"
  /\ cb = "none"
  /\ wSchematic = undefined
  /\ wName = undefinedName
  /\ dirs = {}
  /\ files = {}
  /\ errors = <<>>
  /\ trace = <<>>

(***************************************************************************)
(* Helpers of the actions.                                                 *)
(***************************************************************************)
\* !x for a string and for a name: undefined and the empty string are falsy
FalsySchematic(x) == x = undefined \/ x = ""
FalsyName(x) == x = undefinedName \/ x = <<>>

\* an Error: its message, and for the unsupported-schematic error the value
\* it names and the kinds it lists
Error(message, schematic, listed) ==
  [message |-> message, schematic |-> schematic, listed |-> listed]

\* the error fs.mkdir may call back with
MkdirError == Error("EACCES: permission denied, mkdir", undefined, <<>>)

\* the error copyTpl throws when the template does not exist
TemplateError ==
  Error("Trying to copy from a source that does not exist", undefined, <<>>)

\* this.env.error(e) in a method of the run loop: e is thrown, the run ends
Throw(e) ==
  /\ errors' = Append(errors, e)
  /\ trace' = Append(trace, Event("error", e.message))
  /\ pc' = "aborted"

\* this.templatePath(`${schematic}.tpl`)
templatePath(schematic) == "templates/" \o schematic \o ".tpl"

\* `src/${name}`
folderPath(name) == "src/" \o Str(name)

\* this.destinationPath(`src/${name}/${name}.${schematic}.ts`)
filePath(name, schematic) ==
  "src/" \o Str(name) \o "/" \o Str(name) \o "." \o schematic \o ".ts"

(***************************************************************************)
(* initializing()                                                          *)
(***************************************************************************)
\* the slip of an inverted existence test: a missing artifact is then
\* required, which throws the module loader's error
initializingInverted ==
  /\ pc = "initializing"
  /\ IF configExists
       THEN /\ Throw(Error(ConfigMissingMessage, undefined, <<>>))
            /\ UNCHANGED expressoConfig
       ELSE /\ Throw(Error("Cannot find module expressots.config.ts", undefined, <<>>))
            /\ UNCHANGED expressoConfig
  /\ UNCHANGED << configExists, configFile, options, answers, cb, wSchematic,
                  wName, dirs, files >>

initializing ==
  /\ pc = "initializing"
  /\ IF ~configExists
       THEN /\ Throw(Error(ConfigMissingMessage, undefined, <<>>))
            /\ UNCHANGED expressoConfig
       ELSE /\ expressoConfig' = configFile
            /\ pc' = "prompting"
            /\ UNCHANGED << errors, trace >>
  /\ UNCHANGED << configExists, configFile, options, answers, cb, wSchematic,
                  wName, dirs, files >>

(***************************************************************************)
(* prompting(): two prompts, each awaited                                  *)
(***************************************************************************)
\* the first this.prompt(...): the question is asked when `when` is true
promptSchematic ==
  /\ pc = "prompting"
  /\ trace' = IF FalsySchematic(options.schematic)
                THEN Append(trace, Event("prompt", "What do you want to generate?"))
                ELSE trace
  /\ pc' = "await_schematic"
  /\ UNCHANGED << configExists, configFile, options, answers, expressoConfig,
                  cb, wSchematic, wName, dirs, files, errors >>

\* the first await resumes: this.answers.schematic = schematic ?? this.options.schematic
answerSchematic(schematic) ==
  /\ pc = "await_schematic"
  /\ IF FalsySchematic(options.schematic)
       THEN schematic \in Range(choices)
       ELSE schematic = undefined
  /\ answers' = [answers EXCEPT !.schematic =
                   IF schematic # undefined THEN schematic ELSE options.schematic]
  /\ pc' = "prompt_name"
  /\ UNCHANGED << configExists, configFile, options, expressoConfig, cb,
                  wSchematic, wName, dirs, files, errors, trace >>

\* the copy-paste slip of testing the schematic option for the name prompt
promptNameWrongWhen ==
  /\ pc = "prompt_name"
  /\ trace' = IF FalsySchematic(options.schematic)
                THEN Append(trace, Event("prompt",
                       "What is the name of the " \o answers.schematic \o "?"))
                ELSE trace
  /\ pc' = "await_name"
  /\ UNCHANGED << configExists, configFile, options, answers, expressoConfig,
                  cb, wSchematic, wName, dirs, files, errors >>

\* the second this.prompt(...), its message built from this.answers.schematic
promptName ==
  /\ pc = "prompt_name"
  /\ trace' = IF FalsyName(options.name)
                THEN Append(trace, Event("prompt",
                       "What is the name of the " \o answers.schematic \o "?"))
                ELSE trace
  /\ pc' = "await_name"
  /\ UNCHANGED << configExists, configFile, options, answers, expressoConfig,
                  cb, wSchematic, wName, dirs, files, errors >>

\* the second await resumes: this.answers.name = name ?? this.options.name
answerName(name) ==
  /\ pc = "await_name"
  /\ IF FalsyName(options.name)
       THEN name \in Names
       ELSE name = undefinedName
  /\ answers' = [answers EXCEPT !.name =
                   IF name # undefinedName THEN name ELSE options.name]
  /\ pc' = "validate"
  /\ UNCHANGED << configExists, configFile, options, expressoConfig, cb,
                  wSchematic, wName, dirs, files, errors, trace >>

(***************************************************************************)
(* _schematicValidation() and validate()                                   *)
(***************************************************************************)
\* the slip of a dropped negation
schematicValidationNoNot(schematic) == schematic \in Range(validOptions)

\* !options.includes(this.answers.schematic)
schematicValidation(schematic) == ~(schematic \in Range(validOptions))

validate ==
  /\ pc = "validate"
  /\ IF schematicValidation(answers.schematic)
       THEN Throw(Error(UnsupportedMessage(answers.schematic),
                        answers.schematic, listedOptions))
       ELSE /\ pc' = "writing"
            /\ UNCHANGED << errors, trace >>
  /\ UNCHANGED << configExists, configFile, options, answers, expressoConfig,
                  cb, wSchematic, wName, dirs, files >>

(***************************************************************************)
(* writing() and the callback of fs.mkdir                                  *)
(***************************************************************************)
\* the switch on this.expressoConfig.scaffoldPattern
patternName(name, scaffoldPattern) ==
  CASE scaffoldPattern = LOWER_CASE -> toLowerCase(name)
    [] scaffoldPattern = KEBAB_CASE -> toKebabCase(name)
    [] scaffoldPattern = PASCAL_CASE -> toPascalCase(name)
    [] scaffoldPattern = CAMEL_CASE -> toLowerCase(charAt0(name)) \o slice1(name)
    [] OTHER -> name

\* writing() to its return: the locals are set and fs.mkdir is called; the
\* callback is left to a later turn of the event loop
writing ==
  /\ pc = "writing"
  /\ wSchematic' = answers.schematic
  /\ wName' = patternName(answers.name, expressoConfig.scaffoldPattern)
  /\ cb' = "pending"
  /\ trace' = Append(trace, Event("mkdir", folderPath(wName')))
  /\ pc' = "end"
  /\ UNCHANGED << configExists, configFile, options, answers, expressoConfig,
                  dirs, files, errors >>

\* this.fs.copyTpl(from, to, {className})
copyTpl(from, to, className) ==
  files \cup {[template |-> from, path |-> to, className |-> className]}

\* an error thrown inside the callback is uncaught: it is reported and the
\* process ends, unless the run loop has already finished
ThrowInCallback(e) ==
  /\ errors' = Append(errors, e)
  /\ trace' = Append(trace, Event("error", e.message))
  /\ cb' = "failed"
  /\ pc' = IF pc = "done" THEN "done" ELSE "aborted"

\* the slip of reporting the mkdir error without stopping
mkdirCallbackNoStop(err, templateExists) ==
  /\ cb = "pending"
  /\ dirs' = IF err THEN dirs ELSE dirs \cup {folderPath(wName)}
  /\ files' = copyTpl(templatePath(wSchematic), filePath(wName, wSchematic),
                      Str(toPascalCase(wName)))
  /\ errors' = IF err THEN Append(errors, MkdirError) ELSE errors
  /\ trace' = (IF err THEN Append(trace, Event("error", MkdirError.message))
                      ELSE trace)
                \o <<Event("render", filePath(wName, wSchematic))>>
  /\ cb' = "done"
  /\ UNCHANGED << configExists, configFile, options, answers, expressoConfig,
                  pc, wSchematic, wName >>

\* fs.mkdir completes, with an error or having made the directory, and calls
\* back: err => { if (err) this.env.error(err); this.fs.copyTpl(...) }
mkdirCallback(err, templateExists) ==
  /\ cb = "pending"
  /\ IF err
       THEN /\ ThrowInCallback(MkdirError)
            /\ UNCHANGED << dirs, files >>
       ELSE /\ dirs' = dirs \cup {folderPath(wName)}
            /\ IF templateExists
                 THEN /\ files' = copyTpl(templatePath(wSchematic),
                                          filePath(wName, wSchematic),
                                          Str(toPascalCase(wName)))
                      /\ trace' = Append(trace,
                                    Event("render", filePath(wName, wSchematic)))
                      /\ cb' = "done"
                      /\ UNCHANGED << errors, pc >>
                 ELSE /\ ThrowInCallback(TemplateError)
                      /\ UNCHANGED files
  /\ UNCHANGED << configExists, configFile, options, answers, expressoConfig,
                  wSchematic, wName >>

(***************************************************************************)
(* end()                                                                   *)
(***************************************************************************)
end ==
  /\ pc = "end"
  /\ pc' = "done"
  /\ UNCHANGED << configExists, configFile, options, answers, expressoConfig,
                  cb, wSchematic, wName, dirs, files, errors, trace >>

Next ==
  \/ initializing
  \/ promptSchematic
  \/ \E schematic \in Range(choices) \cup {undefined} : answerSchematic(schematic)
  \/ promptName
  \/ \E name \in Names \cup {undefinedName} : answerName(name)
  \/ validate
  \/ writing
  \/ \E err \in BOOLEAN, templateExists \in BOOLEAN :
       mkdirCallback(err, templateExists)
  \/ end

Spec == Init /\ [][Next]_vars

(***************************************************************************)
(* Vocabulary of the properties.                                           *)
(***************************************************************************)
FourKinds == {"usecase", "controller", "dto", "service"}

SchematicQuestion == "What do you want to generate?"

\* the positions of the trace at which a question was put to the caller
SchematicAsked == {i \in DOMAIN trace : trace[i] = Event("prompt", SchematicQuestion)}
NameAsked ==
  {i \in DOMAIN trace : trace[i].ev = "prompt" /\ trace[i].arg # SchematicQuestion}

\* the positions of the trace at which something was written
Written == {i \in DOMAIN trace : trace[i].ev \in {"mkdir", "render"}}
Reported == {i \in DOMAIN trace : trace[i].ev = "error"}

\* both prompts are behind and validate() has run
PastValidate == answers.name # undefinedName /\ pc # "validate"

\* the run loop has stopped and no callback is outstanding
Ended == pc \in {"done", "aborted"} /\ cb # "pending"

RenderedPaths == {f.path : f \in files}

\* C1: with expressots.config.ts absent the run aborts in initializing with
\* the config-missing error, and no prompt is issued, no directory created
\* and no file written.
C1_ConfigMissingAbortsFirst ==
  ~configExists =>
    /\ pc \in {"initializing", "aborted"}
    /\ pc = "aborted" => errors = <<Error(ConfigMissingMessage, undefined, <<>>)>>
    /\ SchematicAsked = {} /\ NameAsked = {}
    /\ cb = "none" /\ dirs = {} /\ files = {} /\ Written = {}

C1_Witness ==
  ~configExists /\ pc = "aborted" /\ Len(errors) = 1

C3_ClassNameFromRawName ==
  \A f \in files : f.className = Str(toPascalCase(answers.name))

\* the folder name the four patterns stand for, in the words of C4
HyphenatedAt(n, i) ==
  IF i > 1 /\ IsLower(n[i - 1]) /\ IsUpper(n[i])
    THEN <<"-", charToLowerCase(n[i])>>
    ELSE <<charToLowerCase(n[i])>>

FolderOf(n, p) ==
  CASE p = "lowercase" -> [i \in 1..Len(n) |-> charToLowerCase(n[i])]
    [] p = "kebab-case" -> join([i \in 1..Len(n) |-> HyphenatedAt(n, i)])
    [] p = "PascalCase" -> toPascalCase(n)
    [] p = "camelCase" ->
         [i \in 1..Len(n) |-> IF i = 1 THEN charToLowerCase(n[i]) ELSE n[i]]

\* C4: a run that renders, for kind k, raw name n and configured pattern p,
\* has created src/<f> and rendered exactly src/<f>/<f>.<k>.ts, f being the
\* conversion of n that p selects; usecase, OrderTotal, kebab-case gives
\* src/order-total/order-total.usecase.ts.
C4_TargetPath ==
  (cb = "done" /\ expressoConfig.scaffoldPattern \in Pattern) =>
    LET f == Str(FolderOf(answers.name, expressoConfig.scaffoldPattern))
        k == answers.schematic
    IN  /\ k \in FourKinds
        /\ dirs = {"src/" \o f}
        /\ Cardinality(files) = 1
        /\ RenderedPaths = {"src/" \o f \o "/" \o f \o "." \o k \o ".ts"}
        /\ (answers.name = OrderTotal /\ k = "usecase"
              /\ expressoConfig.scaffoldPattern = "kebab-case")
             => RenderedPaths = {"src/order-total/order-total.usecase.ts"}

C4_Witness ==
  /\ cb = "done" /\ answers.name = OrderTotal /\ answers.schematic = "usecase"
  /\ expressoConfig.scaffoldPattern = KEBAB_CASE
  /\ dirs = {"src/order-total"}

\* C5: the schematic is resolved before the name question is asked, the
\* question naming the resolved kind; a prompt is issued only when its
\* argument was not supplied (absent or empty), and a supplied argument is
\* the value used.
C5_PromptOrder ==
  /\ \A i \in NameAsked :
       /\ answers.schematic # undefined /\ answers.schematic # ""
       /\ trace[i].arg = "What is the name of the " \o answers.schematic \o "?"
       /\ \A j \in SchematicAsked : j < i
  /\ pc = "await_name" => answers.schematic # undefined
  /\ SchematicAsked # {} => options.schematic \in {undefined, ""}
  /\ NameAsked # {} => options.name \in {undefinedName, <<>>}
  /\ Cardinality(SchematicAsked) <= 1 /\ Cardinality(NameAsked) <= 1
  /\ (options.schematic \notin {undefined, ""} /\ answers.schematic # undefined)
       => answers.schematic = options.schematic
  /\ (options.name \notin {undefinedName, <<>>} /\ answers.name # undefinedName)
       => answers.name = options.name

C5_Witness ==
  /\ SchematicAsked = {1} /\ NameAsked = {2}
  /\ answers.schematic = "dto" /\ answers.name = <<"a", "B">>

\* the two outcomes of C6
Completed == pc = "done" /\ errors = <<>> /\ Cardinality(files) = 1
Failed ==
  /\ Len(errors) = 1 /\ files = {}
  /\ \A i \in Reported : \A j \in Written : j < i

\* C6: a run ends in exactly one of two outcomes, one file rendered and no
\* error, or exactly one error with nothing written after it; when mkdir
\* fails the error is reported and the template is not rendered.
C6_OneOutcome ==
  /\ Ended => (Completed \/ Failed) /\ ~(Completed /\ Failed)
  /\ Len(errors) <= 1
  /\ errors # <<>> => (trace[Len(trace)].ev = "error" /\ files = {})
  /\ (\E i \in DOMAIN errors : errors[i] = MkdirError)
       => (cb = "failed" /\ files = {} /\ dirs = {}
             /\ \A i \in DOMAIN trace : trace[i].ev # "render")

C6_Witness ==
  /\ Ended /\ cb = "failed" /\ errors = <<MkdirError>>
  /\ answers.schematic = "service"

\* C7: an artifact that sets no scaffoldPattern loads as kebab-case, and the
\* folder name is toKebabCase of the raw name.
C7_DefaultKebab ==
  (configExists /\ configFile.scaffoldPattern = undefined
     /\ pc # "initializing") =>
    /\ expressoConfig.scaffoldPattern = KEBAB_CASE
    /\ wName # undefinedName => wName = toKebabCase(answers.name)

\* C8: the unsupported-schematic error names the offending value and lists
\* exactly the kinds the validator accepts.
C8_MessageListsAllowedSet ==
  \A i \in DOMAIN errors :
    errors[i].schematic # undefined =>
      /\ errors[i].schematic = answers.schematic
      /\ Range(errors[i].listed) = FourKinds
      /\ Range(errors[i].listed) = {k \in SchematicArgs : ~schematicValidation(k)}

\* the names a state of the run holds
NamesHeld == {options.name, answers.name, wName} \ {undefinedName}

\* C9: toPascalCase is idempotent, and a name of separators only (the empty
\* name included) gives the empty name; so under the PascalCase pattern the
\* class name rendered is the folder name.
C9_PascalIdempotent ==
  /\ \A s \in NamesHeld :
       /\ toPascalCase(toPascalCase(s)) = toPascalCase(s)
       /\ (\A i \in DOMAIN s : IsSeparator(s[i])) => toPascalCase(s) = <<>>
  /\ (cb = "done" /\ expressoConfig.scaffoldPattern = PASCAL_CASE) =>
       \A f \in files : f.className = Str(wName)

C9_Witness ==
  /\ cb = "done" /\ expressoConfig.scaffoldPattern = PASCAL_CASE
  /\ answers.name = <<"_", "a">> /\ wName = <<"A">>
  /\ \E f \in files : f.className = "A"

\* C10: the steps after writing do not start while the mkdir callback, and
\* with it the render, is still outstanding.
C10_RenderBeforeEnd ==
  pc \in {"end", "done"} => cb # "pending"

====
